---- MODULE Spec2Model ----
(***************************************************************************)
(* Higuchi fractal dimension feature extractor (methods/fractal.py).       *)
(*                                                                         *)
(* One call of higuchi_fractal(eegdata, kmax, flating, **kwargs) is        *)
(* modelled as a sequence of steps over the caller's objects (the payload  *)
(* dict and the arrays it refers to, kept in `heap`) and the locals of the *)
(* function.  Floating point values are exact rationals with an explicit   *)
(* overflow threshold (FloatMax) and the IEEE special values nan and inf;  *)
(* log() and the least-squares fit are kept symbolic.                      *)
(***************************************************************************)
EXTENDS Integers, Sequences, FiniteSets, TLC

(* ---------------------------------------------------------------- bounds *)
MaxTrials == 2
MaxBands == 2
MaxElectrodes == 2
\* time-axis lengths run from MinSamples - ShortSpan to MinSamples + LongSpan
ShortSpan == 1
LongSpan == 1
\* largest finite magnitude of the (scaled) floating point format
FloatMax == 1000

(* ----------------------------------------------------- program constants *)
DefaultKmax == 100
MinKmax == 2
MinSamples == 10
NumScales == 10

(* ------------------------------------------------------------ arithmetic *)
Abs(x) == IF x < 0 THEN -x ELSE x

Min(a, b) == IF a <= b THEN a ELSE b

RECURSIVE GCD(_, _)
GCD(a, b) == IF b = 0 THEN a ELSE GCD(b, a % b)

RECURSIVE IntPow(_, _)
IntPow(b, e) == IF e = 0 THEN 1 ELSE b * IntPow(b, e - 1)

(* A float64 value: a finite rational n/d (d > 0, lowest terms), nan, or   *)
(* +-inf (n is the sign).                                                  *)
Fin(n, d) == [k |-> "fin", n |-> n, d |-> d]
NaN == [k |-> "nan", n |-> 0, d |-> 1]
Inf(s) == [k |-> "inf", n |-> s, d |-> 1]
Sign(x) == IF x < 0 THEN -1 ELSE 1

\* the result of an operation whose exact value is n/d: overflow gives +-inf
Round(n, d) ==
    IF Abs(n) > FloatMax * d THEN Inf(Sign(n))
    ELSE LET g == GCD(Abs(n), d) IN Fin(n \div g, d \div g)

FNeg(a) == [a EXCEPT !.n = -a.n]

FAdd(a, b) ==
    CASE a.k = "nan" \/ b.k = "nan" -> NaN
      [] a.k = "inf" /\ b.k = "inf" -> IF a.n = b.n THEN a ELSE NaN
      [] a.k = "inf" -> a
      [] b.k = "inf" -> b
      [] OTHER -> Round(a.n * b.d + b.n * a.d, a.d * b.d)

FSub(a, b) == FAdd(a, FNeg(b))

FAbs(a) == IF a.k = "nan" THEN NaN ELSE [a EXCEPT !.n = Abs(a.n)]

\* a * i and a / i for an integer i > 0
FMulInt(a, i) == IF a.k = "fin" THEN Round(a.n * i, a.d) ELSE a

FDivInt(a, i) == IF a.k = "fin" THEN Round(a.n, a.d * i) ELSE a

IsFinite(a) == a.k = "fin"

\* np.log(x + 1e-12): symbolic for a finite x >= 0, nan below zero
LogEps(x) ==
    CASE x.k = "nan" -> [k |-> "nan", arg |-> NaN]
      [] x.k = "inf" -> IF x.n > 0 THEN [k |-> "inf", arg |-> x]
                                    ELSE [k |-> "nan", arg |-> NaN]
      [] OTHER -> IF x.n >= 0 THEN [k |-> "log", arg |-> x]
                              ELSE [k |-> "nan", arg |-> NaN]

\* the float literal 0.0 stored in lk when no offset qualifies
LitZero == [k |-> "lit", arg |-> Fin(0, 1)]

RECURSIVE FSum(_, _)
\* left-to-right sum of the first i elements of a sequence of floats
FSum(s, i) == IF i = 0 THEN Fin(0, 1) ELSE FAdd(FSum(s, i - 1), s[i])

(* ---------------------------------------------------------- Scale Selector *)
\* floor(m^(j/(NumScales-1))): the largest r with r^(NumScales-1) <= m^j
FloorRoot(m, j) ==
    LET mj == IntPow(m, j)
    IN  CHOOSE r \in 1..m :
            /\ IntPow(r, NumScales - 1) <= mj
            /\ r = m \/ IntPow(r + 1, NumScales - 1) > mj

\* m^(j/(NumScales-1)) is an integer (j > 0): there pow() may return a value
\* just below it, which dtype=int truncates to one less
IsExact(m, j) == j > 0 /\ IntPow(FloorRoot(m, j), NumScales - 1) = IntPow(m, j)

ExactPoints(m) == {j \in 1..(NumScales - 1) : IsExact(m, j)}

\* element j of np.logspace(0, log10(m), num=NumScales, dtype=int)
LogspaceInt(m, j, low) ==
    LET r == FloorRoot(m, j)
    IN  IF j \in low /\ IsExact(m, j) THEN r - 1 ELSE r

RECURSIVE SortedSeq(_)
\* np.unique: the distinct values in ascending order
SortedSeq(S) ==
    IF S = {} THEN <<>>
    ELSE LET lo == CHOOSE x \in S : \A y \in S : x <= y
         IN <<lo>> \o SortedSeq(S \ {lo})

\* faulty variant: np.unique left out (logspace is already ascending)
UniqueMissing(s) == s

Unique(s) == SortedSeq({s[i] : i \in DOMAIN s})

Logspace(m, low) == [j \in 1..NumScales |-> LogspaceInt(m, j - 1, low)]

\* scales[scales >= 1]
KeepPositive(s) == SelectSeq(s, LAMBDA x : x >= 1)

ScaleSet(m, low) == KeepPositive(Unique(Logspace(m, low)))

\* faulty variant: the cap at half the signal length replaced by n - 1
MaxKWhole(km, n) == Min(km, n - 1)

\* max_k = min(kmax, n_time // 2)
MaxK(km, n) == Min(km, n \div 2)

(* ----------------------------------------------------------------- arrays *)
\* an object of the caller's heap: a numpy array (shape + row-major buffer)
\* or some other Python object
NdArray(shape, data) == [type |-> "ndarray", shape |-> shape, data |-> data]

RECURSIVE Prod(_, _)
Prod(s, i) == IF i = 0 THEN 1 ELSE Prod(s, i - 1) * s[i]

Ndim(a) == Len(a.shape)

\* a local that is not bound yet
Unbound == [base |-> 0, shape |-> <<>>]

\* a view: the buffer of heap object `base` read under another shape
View(base, shape) == [base |-> base, shape |-> shape]

\* X[:, np.newaxis, :, :]
NewAxis(shape) == <<shape[1], 1, shape[2], shape[3]>>

\* X.reshape(trials * bands * electrodes, time)
FlatShape(shape) == <<shape[1] * shape[2] * shape[3], shape[4]>>

\* faulty variant: the rows read in column-major order (reshape(..., order="F"))
FlatRowFortran(data, r, time) ==
    [j \in 1..time |-> data[(j - 1) * (Len(data) \div time) + r + 1]]

\* row r (from 0) of a 2-D view over `data`: for i, sig in enumerate(X_flat)
FlatRow(data, r, time) == [j \in 1..time |-> data[r * time + j]]

(* ---------------------------------------------------- Curve-Length Estimator *)
\* sig - sig.mean()
RECURSIVE SubEach(_, _, _)
SubEach(sig, mean, j) ==
    IF j = 0 THEN <<>> ELSE Append(SubEach(sig, mean, j - 1), FSub(sig[j], mean))

Center(sig) == SubEach(sig, FDivInt(FSum(sig, Len(sig)), Len(sig)), Len(sig))

\* np.arange(m, n_time, k)
Arange(m, n, k) ==
    IF m >= n THEN <<>>
    ELSE [j \in 1..((n - m + k - 1) \div k) |-> m + (j - 1) * k]

\* np.abs(np.diff(sig[idx]))
AbsDiff(sig, idx) ==
    [j \in 1..(Len(idx) - 1) |-> FAbs(FSub(sig[idx[j + 1] + 1], sig[idx[j] + 1]))]

\* faulty variant: d.sum() + (n_time - 1) in place of the product
OffsetLengthPlus(sig, idx, k, n) ==
    LET d == AbsDiff(sig, idx)
    IN  FDivInt(FAdd(FSum(d, Len(d)), Fin(n - 1, 1)), Len(d) * k)

\* L_mk = (d.sum() * (n_time - 1)) / (d.size * k)
OffsetLength(sig, idx, k, n) ==
    LET d == AbsDiff(sig, idx)
    IN  FDivInt(FMulInt(FSum(d, Len(d)), n - 1), Len(d) * k)

RECURSIVE OffsetLoop(_, _, _, _)
\* sum_l and count after the offsets 0 .. m-1 of `for m in range(k)`
OffsetLoop(sig, k, n, m) ==
    IF m = 0 THEN [sum_l |-> Fin(0, 1), count |-> 0]
    ELSE LET prev == OffsetLoop(sig, k, n, m - 1)
             idx == Arange(m - 1, n, k)
         IN  IF Len(idx) >= 2
             THEN [sum_l |-> FAdd(prev.sum_l, OffsetLength(sig, idx, k, n)),
                   count |-> prev.count + 1]
             ELSE prev

\* one pass of `for si, k in enumerate(scales)`: count and lk[si]
ScaleStep(sig, k, n) ==
    LET r == OffsetLoop(sig, k, n, k)
    IN  [count |-> r.count,
         lk |-> IF r.count = 0 THEN LitZero
                ELSE LogEps(FDivInt(r.sum_l, r.count))]

(* ------------------------------------------------------- Log-Log Regressor *)
\* an output element: the literal 0.0, the slope fitted to the points
\* (log(1/ks[j]), ys[j]), or an element of np.empty not written yet
Zero == [k |-> "zero", ks |-> <<>>, ys |-> <<>>]
Uninit == [k |-> "uninit", ks |-> <<>>, ys |-> <<>>]
PolyfitSlope(ks, ys) == [k |-> "slope", ks |-> ks, ys |-> ys]

\* np.polyfit raises on an empty x and when lstsq meets a nan or an inf
PolyfitError(ks, ys) ==
    IF Len(ks) = 0 THEN "TypeError"
    ELSE IF \E j \in DOMAIN ys : ys[j].k \in {"inf", "nan"} THEN "LinAlgError"
    ELSE "none"

\* faulty variant: no filtering of the non-finite points
ValidAll(lk) == [si \in DOMAIN lk |-> TRUE]

\* ~np.isinf(lk) & ~np.isnan(lk)
Valid(lk) == [si \in DOMAIN lk |-> lk[si].k \notin {"inf", "nan"}]

RECURSIVE Mask(_, _, _)
\* s[valid]: the elements of s at the first i positions where valid holds
Mask(s, valid, i) ==
    IF i = 0 THEN <<>>
    ELSE IF valid[i] THEN Append(Mask(s, valid, i - 1), s[i])
         ELSE Mask(s, valid, i - 1)

RECURSIVE ScaleLoop(_, _, _, _)
\* the first si passes of `for si, k in enumerate(scales)`
ScaleLoop(sig, scls, n, si) ==
    IF si = 0 THEN <<>>
    ELSE Append(ScaleLoop(sig, scls, n, si - 1), ScaleStep(sig, scls[si], n))

\* the body of `for i, sig in enumerate(X_flat)` for one raw signal
SignalHFD(raw, scls, n) ==
    LET sig == Center(raw)
        per == ScaleLoop(sig, scls, n, Len(scls))
        lks == [si \in DOMAIN scls |-> per[si].lk]
        valid == Valid(lks)
        nvalid == Cardinality({si \in DOMAIN scls : valid[si]})
        xs == Mask(scls, valid, Len(scls))
        ys == Mask(lks, valid, Len(scls))
    IN  [lk |-> lks,
         count |-> [si \in DOMAIN scls |-> per[si].count],
         err |-> IF nvalid < 2 THEN "none" ELSE PolyfitError(xs, ys),
         hfd |-> IF nvalid < 2 THEN Zero ELSE PolyfitSlope(xs, ys)]

(* ------------------------------------------------------------------ state *)
VARIABLES
    eegdata,    \* the payload object: its Python type and its key -> heap index map
    heap,       \* the objects the payload refers to (arrays and others)
    args,       \* the arguments of the call: kmax, flating, kwargs
    powLow,     \* the exponents at which this build's pow() lands below the integer
    kmax,       \* local kmax (rebound by the clamp)
    flating,    \* local flating (rebound by the merge with the legacy switch)
    X,          \* local X: a view of the input tensor
    X_flat,     \* local X_flat: the 2-D view of X
    n_time,     \* local n_time
    scales,     \* local scales
    hfd_vals,   \* local hfd_vals
    i,          \* number of signals the loop has finished
    lk,         \* local lk of the last signal processed
    count,      \* value of count at line 135, per scale, for the last signal
    writes,     \* how many times each element of hfd_vals has been written
    pc,         \* position of the call
    exc,        \* the exception raised, if any
    ret         \* the returned object, if any

vars == <<eegdata, heap, args, powLow, kmax, flating, X, X_flat, n_time, scales,
          hfd_vals, i, lk, count, writes, pc, exc, ret>>

NoExc == [type |-> "none", msg |-> "", shape |-> <<>>]

(* ----------------------------------------------------------------- inputs *)
Times == (MinSamples - ShortSpan)..(MinSamples + LongSpan)

\* the signals a tensor is filled with: flat, alternating 0/1, one nan sample,
\* alternating +-FloatMax (the differences overflow), flat at FloatMax (the
\* sum overflows)
KindSeq == <<"const", "alt", "nan", "huge", "flat_huge">>

Sample(kind, j) ==
    CASE kind = "const" -> Fin(3, 1)
      [] kind = "alt" -> Fin((j - 1) % 2, 1)
      [] kind = "nan" -> IF j = 1 THEN NaN ELSE Fin(0, 1)
      [] kind = "huge" -> Fin(IF j % 2 = 1 THEN FloatMax ELSE -FloatMax, 1)
      [] OTHER -> Fin(FloatMax, 1)

\* signal r of a tensor is of kind seed + r
Seeds == {0, 1}

\* a buffer of `rows` signals of n samples: signal r is of kind seed + r
MakeData(rows, n, seed) ==
    [p \in 1..(rows * n) |->
        Sample(KindSeq[((seed + (p - 1) \div n) % Len(KindSeq)) + 1],
               ((p - 1) % n) + 1)]

Labels == [type |-> "labels", shape |-> <<>>, data |-> <<>>]

GoodShapes ==
    {<<t, e, n>> : t \in 1..MaxTrials, e \in 1..MaxElectrodes, n \in Times}
    \cup {<<t, b, e, n>> : t \in 1..MaxTrials, b \in 1..MaxBands,
                           e \in 1..MaxElectrodes, n \in Times}

BadShapes == {<<1, n>> : n \in Times} \cup {<<1, 1, 1, 1, n>> : n \in Times}

Tensors ==
    {NdArray(s, MakeData(Prod(s, Len(s) - 1), s[Len(s)], seed)) :
        s \in GoodShapes, seed \in Seeds}
    \cup {NdArray(s, MakeData(1, s[Len(s)], 0)) : s \in BadShapes}
    \cup {[type |-> "list", shape |-> <<1, 1, MinSamples>>,
           data |-> MakeData(1, MinSamples, 0)]}

\* the payloads a caller may pass, each with the heap it refers to
Payloads ==
    {[e |-> [type |-> "list", items |-> <<>>], h |-> <<>>]}
    \cup {[e |-> [type |-> "dict", items |-> [y |-> 1]], h |-> <<Labels>>]}
    \cup {[e |-> [type |-> "dict", items |-> [X |-> 1, y |-> 2]],
           h |-> <<t, Labels>>] : t \in Tensors}

\* kmax arguments: integers around the clamp and the default, and the float 3.0
KmaxArgs ==
    {[type |-> "int", v |-> v] :
        v \in {-1, 0, 1, MinKmax, MinKmax + 1, DefaultKmax}}
    \cup {[type |-> "float", v |-> MinKmax + 1]}

KwArgs == {<<>>} \cup {[flattening |-> b] : b \in BOOLEAN}

\* the calls made: every kmax with either value of flating, and the legacy
\* switch `flattening` with the default kmax
CallArgs ==
    {a \in [kmax : KmaxArgs, flating : BOOLEAN, kwargs : KwArgs] :
        a.kwargs = <<>> \/ a.kmax = [type |-> "int", v |-> DefaultKmax]}

\* the largest max_k a call can reach, and the exponents exact for some max_k
MaxScale == (MinSamples + LongSpan) \div 2
PowPoints == UNION {ExactPoints(m) : m \in MinKmax..MaxScale}

Init ==
    /\ \E p \in Payloads : eegdata = p.e /\ heap = p.h
    /\ args \in CallArgs
    /\ powLow \in SUBSET PowPoints
    /\ kmax = args.kmax
    /\ flating = args.flating
    /\ X = Unbound
    /\ X_flat = Unbound
    /\ n_time = 0
    /\ scales = <<>>
    /\ hfd_vals = <<>>
    /\ i = 0
    /\ lk = <<>>
    /\ count = <<>>
    /\ writes = <<>>
    /\ pc = "start"
    /\ exc = NoExc
    /\ ret = "none"

(* ---------------------------------------------------------------- actions *)
\* the exceptions of the raise statements at lines 83, 85, 87, 98 and 103
ErrPayload ==
    [type |-> "ValueError", msg |-> "eegdata must be a dict containing key 'X'.",
     shape |-> <<>>]
ErrMissing ==
    [type |-> "KeyError", msg |-> "eegdata must contain key 'X'.", shape |-> <<>>]
\* faulty variant: the raise of line 83 pasted for the kmax check
ErrKmaxPasted == ErrPayload
ErrKmax ==
    [type |-> "ValueError", msg |-> "kmax must be an integer >= 2.", shape |-> <<>>]
ErrTensorType ==
    [type |-> "ValueError", msg |-> "eegdata['X'] must be a numpy.ndarray.",
     shape |-> <<>>]
ErrShape(shape) ==
    [type |-> "ValueError", msg |-> "Unsupported shape for higuchi_fractal: ...",
     shape |-> shape]

Raise(e) ==
    /\ pc' = "raised"
    /\ exc' = e

\* faulty variant: no clamp
ClampKmaxNone(km) == km

\* if kmax < 2: kmax = 2
ClampKmax(km) == IF km.v < MinKmax THEN [km EXCEPT !.v = MinKmax] ELSE km

\* lines 82-89: the checks on eegdata and kmax, and the clamp
CheckArgs ==
    /\ pc = "start"
    /\ IF eegdata.type # "dict"
       THEN /\ Raise(ErrPayload)
            /\ UNCHANGED kmax
       ELSE IF "X" \notin DOMAIN eegdata.items
       THEN /\ Raise(ErrMissing)
            /\ UNCHANGED kmax
       ELSE IF kmax.type # "int"
       THEN /\ Raise(ErrKmax)
            /\ UNCHANGED kmax
       ELSE /\ kmax' = ClampKmax(kmax)
            /\ pc' = "flags"
            /\ UNCHANGED exc
    /\ UNCHANGED <<eegdata, heap, args, powLow, flating, X, X_flat, n_time, scales,
                   hfd_vals, i, lk, count, writes, ret>>

\* faulty variant: the switches combined with `and`
MergedFlagAnd(fl, kw) ==
    IF "flattening" \in DOMAIN kw THEN fl /\ kw["flattening"] ELSE fl

\* lines 91-94: flating or bool(kwargs[...]) for the keys present in kwargs
MergedFlag(fl, kw) ==
    LET f1 == IF "flattening" \in DOMAIN kw THEN fl \/ kw["flattening"] ELSE fl
    IN  IF "flating" \in DOMAIN kw THEN f1 \/ kw["flating"] ELSE f1

MergeFlags ==
    /\ pc = "flags"
    /\ flating' = MergedFlag(flating, args.kwargs)
    /\ pc' = "shape"
    /\ UNCHANGED <<eegdata, heap, args, powLow, kmax, X, X_flat, n_time, scales,
                   hfd_vals, i, lk, count, writes, exc, ret>>

\* lines 96-108: the tensor's type and rank, the 4-D view and its 2-D view
NormalizeShape ==
    /\ pc = "shape"
    /\ LET ref == eegdata.items["X"]
           obj == heap[ref]
       IN  IF obj.type # "ndarray"
           THEN /\ Raise(ErrTensorType)
                /\ UNCHANGED <<X, X_flat>>
           ELSE IF Ndim(obj) = 3
           THEN /\ X' = View(ref, NewAxis(obj.shape))
                /\ X_flat' = View(ref, FlatShape(NewAxis(obj.shape)))
                /\ pc' = "select"
                /\ UNCHANGED exc
           ELSE IF Ndim(obj) # 4
           THEN /\ Raise(ErrShape(obj.shape))
                /\ X' = View(ref, obj.shape)
                /\ UNCHANGED X_flat
           ELSE /\ X' = View(ref, obj.shape)
                /\ X_flat' = View(ref, FlatShape(obj.shape))
                /\ pc' = "select"
                /\ UNCHANGED exc
    /\ UNCHANGED <<eegdata, heap, args, powLow, kmax, flating, n_time, scales,
                   hfd_vals, i, lk, count, writes>>
    /\ UNCHANGED ret

\* np.zeros(rows) and np.empty(rows)
Empty(rows) == [r \in 1..rows |-> Uninit]
\* faulty variant: np.empty where np.zeros is meant
ZerosAsEmpty(rows) == Empty(rows)
Zeros(rows) == [r \in 1..rows |-> Zero]

\* lines 110-120: short signals, the effective maximum scale, the scale set
SelectScales ==
    /\ pc = "select"
    /\ n_time' = X.shape[4]
    /\ LET rows == X_flat.shape[1]
           max_k == MaxK(kmax.v, X.shape[4])
       IN  IF X.shape[4] < MinSamples \/ max_k < MinKmax
           THEN /\ hfd_vals' = Zeros(rows)
                /\ writes' = [r \in 1..rows |-> 1]
                /\ scales' = scales
                /\ pc' = "reshape"
           ELSE /\ scales' = ScaleSet(max_k, powLow)
                /\ hfd_vals' = Empty(rows)
                /\ writes' = [r \in 1..rows |-> 0]
                /\ pc' = IF rows = 0 THEN "reshape" ELSE "loop"
    /\ UNCHANGED <<eegdata, heap, args, powLow, kmax, flating, X, X_flat, i, lk,
                   count, exc, ret>>

\* faulty variant: sig -= sig.mean() writes through the view into the input tensor
AfterCenterInPlace(h, base, r, n) ==
    [h EXCEPT ![base].data =
        [p \in DOMAIN @ |->
            IF (p - 1) \div n = r
            THEN Center(FlatRow(@, r, n))[((p - 1) % n) + 1]
            ELSE @[p]]]

\* line 122 rebinds sig to a new array: the buffer behind X_flat is not written
AfterCenter(h, base, r, n) == h

\* lines 121-146: one pass of the loop over the signals
ProcessSignal ==
    /\ pc = "loop"
    /\ i < X_flat.shape[1]
    /\ \E res \in {SignalHFD(FlatRow(heap[X_flat.base].data, i, n_time), scales, n_time)} :
           /\ lk' = res.lk
           /\ count' = res.count
           /\ IF res.err # "none"
              THEN /\ Raise([type |-> res.err, msg |-> "np.polyfit", shape |-> <<>>])
                   /\ UNCHANGED <<hfd_vals, writes, i>>
              ELSE /\ hfd_vals' = [hfd_vals EXCEPT ![i + 1] = res.hfd]
                   /\ writes' = [writes EXCEPT ![i + 1] = @ + 1]
                   /\ i' = i + 1
                   /\ pc' = IF i + 1 = X_flat.shape[1] THEN "reshape" ELSE "loop"
                   /\ UNCHANGED exc
    /\ heap' = AfterCenter(heap, X_flat.base, i, n_time)
    /\ UNCHANGED <<eegdata, args, powLow, kmax, flating, X, X_flat, n_time, scales,
                   ret>>

\* hfd_vals.reshape(...): the shape of the output for the effective flag
OutShape(fl, shape) ==
    IF fl THEN <<shape[1], shape[2] * shape[3]>>
    ELSE <<shape[1], shape[2], shape[3]>>

\* lines 148-152: bind eegdata["X"] to the reshaped result and return eegdata
Reshape ==
    /\ pc = "reshape"
    /\ heap' = Append(heap, NdArray(OutShape(flating, X.shape), hfd_vals))
    /\ eegdata' = [eegdata EXCEPT !.items["X"] = Len(heap) + 1]
    /\ ret' = "eegdata"
    /\ pc' = "done"
    /\ UNCHANGED <<args, powLow, kmax, flating, X, X_flat, n_time, scales, hfd_vals,
                   i, lk, count, writes, exc>>

Next == CheckArgs \/ MergeFlags \/ NormalizeShape \/ SelectScales \/ ProcessSignal
        \/ Reshape

Spec == Init /\ [][Next]_vars

(* ================================================================= claims *)
\* the tensor the caller passed (heap object 1 of a payload that has key X)
InTensor == heap[1]

\* the array eegdata["X"] is bound to
OutTensor == heap[eegdata.items["X"]]

\* the shape (T, B, E, N) of the input, a 3-D input counting as B = 1
InShape4 == IF Ndim(InTensor) = 3 THEN NewAxis(InTensor.shape) ELSE InTensor.shape

RECURSIVE RowMajor(_, _, _)
\* the offset of index idx in a row-major buffer of the given shape
RowMajor(shape, idx, d) ==
    IF d = 0 THEN 0 ELSE RowMajor(shape, idx, d - 1) * shape[d] + idx[d]

\* the signal X[t, b, e, :] of the input (X[t, e, :] of a 3-D input)
SignalAt(t, b, e) ==
    LET in == InTensor
    IN  [j \in 1..InShape4[4] |->
            in.data[(IF Ndim(in) = 3
                     THEN RowMajor(in.shape, <<t, e, j - 1>>, 3)
                     ELSE RowMajor(in.shape, <<t, b, e, j - 1>>, 4)) + 1]]

\* the value the kernel computes from one signal alone, under scale set scls
ElementOf(raw, scls) ==
    IF Len(raw) < MinSamples THEN Zero ELSE SignalHFD(raw, scls, Len(raw)).hfd

\* the switch the caller asked for: flating or the legacy flattening
AskedFlat ==
    args.flating \/ ("flattening" \in DOMAIN args.kwargs /\ args.kwargs["flattening"])

\* the per-signal results of a call with integer kmax km on the input tensor
ExpectedData(km) ==
    LET n == InShape4[4]
        scls == ScaleSet(MaxK(km, n), powLow)
    IN  [r \in 1..(InShape4[1] * InShape4[2] * InShape4[3]) |->
            ElementOf([j \in 1..n |-> InTensor.data[(r - 1) * n + j]], scls)]

\* C1: a successful call returns one element per (trial, band, electrode):
\* shape (T, B, E) in grid layout and (T, B*E) flattened, the element at
\* [t, b, e] (resp. [t, b*E + e]) being the value computed from X[t, b, e, :]
C1_OneElementPerTriple ==
    pc = "done" =>
        LET T == InShape4[1]
            B == InShape4[2]
            E == InShape4[3]
            out == OutTensor
        IN  /\ out.type = "ndarray"
            /\ out.shape = IF flating THEN <<T, B * E>> ELSE <<T, B, E>>
            /\ Len(out.data) = T * B * E
            /\ \A t \in 0..(T - 1), b \in 0..(B - 1), e \in 0..(E - 1) :
                   out.data[(IF flating
                             THEN RowMajor(out.shape, <<t, b * E + e>>, 2)
                             ELSE RowMajor(out.shape, <<t, b, e>>, 3)) + 1]
                       = ElementOf(SignalAt(t, b, e), scales)

\* C1 witness: a finished flattened call on a 4-D tensor with two bands and two
\* electrodes whose signals give different values
C1_Witness ==
    /\ pc = "done"
    /\ flating
    /\ Ndim(InTensor) = 4
    /\ InShape4[2] = 2 /\ InShape4[3] = 2
    /\ InShape4[4] >= MinSamples
    /\ OutTensor.data[1] # OutTensor.data[2]
    /\ OutTensor.data[2] # OutTensor.data[3]

\* the structural faults of the call, read off the arguments
FaultNames == {"payload", "missing", "kmax", "tensor_type", "rank"}

HasX == eegdata.type = "dict" /\ "X" \in DOMAIN eegdata.items

Faults ==
    (IF eegdata.type # "dict" THEN {"payload"} ELSE {})
    \cup (IF eegdata.type = "dict" /\ "X" \notin DOMAIN eegdata.items
          THEN {"missing"} ELSE {})
    \cup (IF args.kmax.type # "int" THEN {"kmax"} ELSE {})
    \cup (IF HasX /\ OutTensor.type # "ndarray" THEN {"tensor_type"} ELSE {})
    \cup (IF HasX /\ OutTensor.type = "ndarray" /\ Ndim(OutTensor) \notin {3, 4}
          THEN {"rank"} ELSE {})

\* the exception the code raises for each fault
ErrOf(f) ==
    CASE f = "payload" -> ErrPayload
      [] f = "missing" -> ErrMissing
      [] f = "kmax" -> ErrKmax
      [] f = "tensor_type" -> ErrTensorType
      [] OTHER -> ErrShape(IF HasX THEN OutTensor.shape ELSE <<>>)

C4_ShortSignalsZero ==
    (pc \in {"reshape", "done"} /\ X.shape[4] < MinSamples) =>
        /\ \A r \in DOMAIN hfd_vals : hfd_vals[r] = Zero
        /\ pc = "done" =>
               /\ Len(OutTensor.data) = InShape4[1] * InShape4[2] * InShape4[3]
               /\ \A r \in DOMAIN OutTensor.data : OutTensor.data[r] = Zero

\* C4 witness: a finished call on signals of 9 samples that are not flat
C4_Witness ==
    /\ pc = "done"
    /\ InShape4[4] = MinSamples - 1
    /\ InTensor.data[1] # InTensor.data[2]
    /\ args.kmax.v = DefaultKmax

\* all samples of a signal are the same finite value
IsConstant(raw) == raw[1].k = "fin" /\ \A j \in DOMAIN raw : raw[j] = raw[1]

\* the signal the loop processed last
LastSignal == FlatRow(InTensor.data, i - 1, n_time)

\* an output element that is 0: the literal 0.0, or the least-squares slope of
\* points whose ordinates are all equal
IsZeroValued(v) ==
    \/ v = Zero
    \/ v.k = "slope" /\ \A j \in DOMAIN v.ys : v.ys[j] = v.ys[1]

InLoop == pc \in {"loop", "reshape", "done"} /\ n_time >= MinSamples /\ i >= 1

C6_FlattenIsOr ==
    pc = "done" =>
        /\ flating = AskedFlat
        /\ OutTensor.shape =
               IF AskedFlat THEN <<InShape4[1], InShape4[2] * InShape4[3]>>
               ELSE <<InShape4[1], InShape4[2], InShape4[3]>>
        /\ OutTensor.data = ExpectedData(kmax.v)

\* C6 witness: the legacy switch alone flattened the output
C6_Witness ==
    /\ pc = "done"
    /\ ~args.flating
    /\ "flattening" \in DOMAIN args.kwargs
    /\ args.kwargs["flattening"]
    /\ Len(OutTensor.shape) = 2
    /\ InShape4[2] * InShape4[3] > 1

\* C7: a call changes nothing but the tensor key: no existing object is
\* modified; a failing step leaves the payload as it was; the returning step
\* binds X to a new array, keeps every other key and returns the payload
C7_OnlyTensorKeyChanges ==
    [][/\ Len(heap') >= Len(heap)
       /\ \A o \in DOMAIN heap : heap'[o] = heap[o]
       /\ pc' # "done" => /\ eegdata' = eegdata
                          /\ heap' = heap
                          /\ ret' = "none"
       /\ pc' = "done" =>
              /\ ret' = "eegdata"
              /\ eegdata'.type = eegdata.type
              /\ DOMAIN eegdata'.items = DOMAIN eegdata.items
              /\ \A key \in DOMAIN eegdata.items \ {"X"} :
                     eegdata'.items[key] = eegdata.items[key]
              /\ eegdata'.items["X"] = Len(heap) + 1
              /\ Len(heap') = Len(heap) + 1
              /\ heap'[Len(heap) + 1].data = hfd_vals]_vars

\* C7 witness: a call returned the payload, with its other key, after the loop
C7_Witness ==
    /\ pc = "done"
    /\ ret = "eegdata"
    /\ eegdata.items["y"] = 2
    /\ eegdata.items["X"] = 3
    /\ i >= 2

\* the finite entries of lk
FinitePairs == {si \in DOMAIN lk : lk[si].k \in {"log", "lit"}}

\* how far a call has got: every step moves to a later stage, or to the next
\* signal of the loop
Stage(p) ==
    CASE p = "start" -> 0
      [] p = "flags" -> 1
      [] p = "shape" -> 2
      [] p = "select" -> 3
      [] p = "loop" -> 4
      [] p = "reshape" -> 5
      [] OTHER -> 6

\* what holds of the batch at every point of a call
BatchState ==
    /\ pc = "raised" => /\ hfd_vals = <<>>
                        /\ i = 0
                        /\ exc \in {ErrPayload, ErrMissing, ErrKmax, ErrTensorType}
                               \cup (IF HasX THEN {ErrShape(InTensor.shape)} ELSE {})
    /\ pc \in {"start", "flags", "shape", "reshape"} => ENABLED Next
    /\ pc = "loop" => i < X_flat.shape[1]
    /\ i <= Len(hfd_vals)
    /\ \A r \in DOMAIN writes : writes[r] = IF pc = "loop" /\ r > i THEN 0 ELSE 1
    /\ pc \in {"reshape", "done"} =>
           /\ Len(hfd_vals) = InShape4[1] * InShape4[2] * InShape4[3]
           /\ \A r \in DOMAIN hfd_vals :
                  \/ hfd_vals[r] = Zero
                  \/ /\ hfd_vals[r].k = "slope"
                     /\ Len(hfd_vals[r].ks) >= 2
                     /\ Len(hfd_vals[r].ys) = Len(hfd_vals[r].ks)
                     /\ \A j \in DOMAIN hfd_vals[r].ys :
                            hfd_vals[r].ys[j].k \in {"log", "lit"}
    /\ InLoop =>
           IF Cardinality(FinitePairs) < 2
           THEN hfd_vals[i] = Zero
           ELSE /\ hfd_vals[i].k = "slope"
                /\ Len(hfd_vals[i].ks) = Cardinality(FinitePairs)
                /\ \A j \in DOMAIN hfd_vals[i].ks :
                       \E si \in FinitePairs : /\ scales[si] = hfd_vals[i].ks[j]
                                               /\ lk[si] = hfd_vals[i].ys[j]

\* C8: once the structural checks have passed the call runs to its end: no
\* step raises, the call reaches its return, every element is written exactly
\* once, and each is the slope over at least 2 finite pairs or, with fewer, 0.0
C8_BatchNeverPartiallyFails ==
    /\ []BatchState
    /\ [][/\ Stage(pc') >= Stage(pc)
          /\ Stage(pc') = Stage(pc) => /\ pc = "loop"
                                       /\ i' = i + 1
                                       /\ i' < Len(hfd_vals)
          /\ pc' = "raised" => pc \in {"start", "shape"}]_vars

\* C8 witness: one batch finished with a fallback element (a single finite
\* pair left) beside a fitted one
C8_Witness ==
    /\ pc = "done"
    /\ n_time >= MinSamples
    /\ Cardinality(FinitePairs) = 1
    /\ hfd_vals[i] = Zero
    /\ \E r \in DOMAIN hfd_vals : hfd_vals[r].k = "slope"

Max(a, b) == IF a >= b THEN a ELSE b

\* C9: for N >= 10 the scale set is strictly increasing, has at most 10
\* integers k with 1 <= k <= min(max(kmax, 2), N div 2), and is determined by
\* (kmax, N): the same for every signal of the call, whatever the signals
C9_ScaleSet ==
    (pc \in {"loop", "reshape", "done"} /\ n_time >= MinSamples) =>
        /\ Len(scales) <= NumScales
        /\ \A si \in DOMAIN scales :
               /\ 1 <= scales[si]
               /\ scales[si] <= Min(Max(args.kmax.v, MinKmax), n_time \div 2)
        /\ \A si \in 1..(Len(scales) - 1) : scales[si] < scales[si + 1]
        /\ scales = ScaleSet(Min(Max(args.kmax.v, MinKmax), n_time \div 2), powLow)

\* C9 witness: the loop is running with a scale set whose last scale fell below
\* the effective maximum
C9_Witness ==
    /\ pc = "loop"
    /\ i >= 1
    /\ Len(scales) >= 3
    /\ scales[Len(scales)] < Min(Max(args.kmax.v, MinKmax), n_time \div 2)

\* C10: for N >= 10, every scale k and every offset m < k, the subsequence
\* sig[m], sig[m+k], ... has at least 2 samples: no offset is skipped, count is
\* k, and the count == 0 branch is never taken
C10_NoOffsetSkipped ==
    (pc \in {"loop", "reshape", "done"} /\ n_time >= MinSamples) =>
        /\ \A si \in DOMAIN scales :
               \A m \in 0..(scales[si] - 1) : Len(Arange(m, n_time, scales[si])) >= 2
        /\ i >= 1 =>
               /\ Len(count) = Len(scales)
               /\ \A si \in DOMAIN scales : /\ count[si] = scales[si]
                                            /\ lk[si] # LitZero

\* C10 witness: a signal was processed at a scale of half its length
C10_Witness ==
    /\ InLoop
    /\ Len(count) >= 3
    /\ count[Len(count)] = n_time \div 2
    /\ 2 * count[Len(count)] = n_time

====
